---- MODULE Spec2Model ----
(***************************************************************************)
(* Model of the two batch drivers of ABX_accent_eval:                      *)
(*   eval/fastABX/run_fastabx.py          (ABXProcessor, "Driver A")       *)
(*   eval/generate_item_files/aesrc_item.py (AESRCABXGenerator, "Driver B")*)
(* The external libraries (fastabx, abkhazia) are opaque collaborators:    *)
(* every call into them is recorded and either returns or raises.          *)
(***************************************************************************)
EXTENDS Integers, Sequences, FiniteSets, TLC

(* ------------------------------ bounds --------------------------------- *)
MaxAccents == 2

(* ------------------------------ strings -------------------------------- *)
\* A string is a sequence of tokens; a token is one character or a literal
\* suffix.  A path is a sequence of strings (its components).
UpperAlpha == <<"A","B","C","D","E","F","G","H","I","J","K","L","M",
                "N","O","P","Q","R","S","T","U","V","W","X","Y","Z">>
LowerAlpha == <<"a","b","c","d","e","f","g","h","i","j","k","l","m",
                "n","o","p","q","r","s","t","u","v","w","x","y","z">>

\* The lowercase form of each uppercase letter
LowerOf ==
    [c \in { UpperAlpha[k] : k \in 1..Len(UpperAlpha) } |->
        LowerAlpha[CHOOSE k \in 1..Len(UpperAlpha) : UpperAlpha[k] = c]]

LowerChar(c) == IF c \in DOMAIN LowerOf THEN LowerOf[c] ELSE c

\* str.lower()
Lower(s) == [k \in 1..Len(s) |-> LowerChar(s[k])]

\* The accent labels the list is drawn from: one that lower() changes and
\* its lowercase twin (distinct directories, same lowercased name).
AccentPool == { <<"U","S">>, <<"u","s">> }

BASE_DIR     == << <<"base">> >>
FEATURES_DIR == << <<"features">> >>
TIMES_DIR    == << <<"times">> >>

\* All sequences over S of length 0..n
SeqUpTo(S, n) == UNION { [1..k -> S] : k \in 0..n }

(* ------------------------------ state ---------------------------------- *)
VARIABLES
    program,          \* which entry point this run executes
    \* --- Driver A -----------------------------------------------------
    accents,          \* argument of process_all_accents
    fs,               \* paths that exist on the filesystem
    pc,               \* position in process_all_accents / process_accent
    i,                \* index of the accent the for loop is at
    success_count,
    failed_accents,
    success,          \* value returned by the current process_accent call
    returned,         \* return values of process_accent so far, per iteration
    item_file, features_dir, times_dir,      \* locals of process_accent
    dataset, across_task, across_score, within_task, within_score,
    calls,            \* calls made into fastabx, in order
    cwd_files,        \* CSV files written to the working directory
    summary,          \* the printed processing summary lines (empty before)
    exc,              \* the exception in flight ("none" when there is none)
    propagated,       \* an exception left the entry point uncaught
    \* --- Driver B (shares program, fs, pc, calls, exc, propagated) -----
    validate_only,    \* args.validate_only
    logger,           \* self.log: which logger _setup_logging returned
    log,              \* records logged through self.log
    stdout,           \* lines printed by main
    stderr,           \* lines printed by main to standard error
    exit_code         \* value returned by main (NotReturned before)

varsA == << accents, fs, pc, i, success_count, failed_accents, success,
            returned, item_file, features_dir, times_dir, dataset,
            across_task, across_score, within_task, within_score, calls,
            cwd_files, summary, exc, propagated >>

\* Driver A's own variables, and Driver B's
varsAonly == << accents, i, success_count, failed_accents, success, returned,
                item_file, features_dir, times_dir, dataset, across_task,
                across_score, within_task, within_score, cwd_files, summary >>

varsB == << validate_only, logger, log, stdout, stderr, exit_code >>

vars == << program, varsA, varsB >>

(* ----------------------- Driver A: path helpers ------------------------ *)
\* self.base_dir / accent / "abx" / f"{accent.lower()}_item.item"
get_item_file_path(accent) ==
    BASE_DIR \o << accent, <<"abx">>, Lower(accent) \o <<"_item.item">> >>

exists(p) == p \in fs

get_accent_directories_coupled(accent) ==
    LET accent_features == FEATURES_DIR \o <<accent>>
        accent_times    == TIMES_DIR \o <<accent>>
    IN  << IF exists(accent_features) THEN accent_features ELSE FEATURES_DIR,
           IF exists(accent_features) THEN accent_times ELSE TIMES_DIR >>

\* (features_dir, times_dir) for the accent
get_accent_directories(accent) ==
    LET accent_features == FEATURES_DIR \o <<accent>>
        accent_times    == TIMES_DIR \o <<accent>>
    IN  << IF exists(accent_features) THEN accent_features ELSE FEATURES_DIR,
           IF exists(accent_times) THEN accent_times ELSE TIMES_DIR >>

across_output_csv_as_given(accent) == accent \o <<"_dev_across_scores.csv">>

across_output_csv(accent) == Lower(accent) \o <<"_dev_across_scores.csv">>
within_output_csv(accent) == Lower(accent) \o <<"_dev_within_scores.csv">>

\* Paths whose existence a run over the accent list can observe: the item
\* files, and the item files with the per-accent directories
ItemPaths(list) == { get_item_file_path(list[k]) : k \in DOMAIN list }

CandidatePaths(list) ==
    UNION { { get_item_file_path(list[k]), FEATURES_DIR \o <<list[k]>>,
              TIMES_DIR \o <<list[k]>> } : k \in DOMAIN list }

(* --------------------------- Driver A: Init ---------------------------- *)
\* State after ABXProcessor.__init__: the features and times directories
\* exist (mkdir(parents=True, exist_ok=True)); everything else is arbitrary.
InitLocals ==
    /\ item_file = << >> /\ features_dir = << >> /\ times_dir = << >>
    /\ dataset = 0 /\ across_task = 0 /\ across_score = 0
    /\ within_task = 0 /\ within_score = 0

NotReturned == 0 - 1

\* Driver B's variables while Driver A runs
IdleB ==
    /\ validate_only = FALSE
    /\ logger = "none"
    /\ log = << >>
    /\ stdout = << >>
    /\ stderr = << >>
    /\ exit_code = NotReturned

InitAOver(with_dirs) ==
    /\ program = "run_fastabx"
    /\ IdleB
    /\ accents \in SeqUpTo(AccentPool, MaxAccents)
    /\ fs \in { {FEATURES_DIR, TIMES_DIR} \cup extra :
                  extra \in SUBSET (IF with_dirs THEN CandidatePaths(accents)
                                                 ELSE ItemPaths(accents)) }
    /\ pc = "for"
    /\ i = 0
    /\ success_count = 0
    /\ failed_accents = << >>
    /\ success = FALSE
    /\ returned = << >>
    /\ InitLocals
    /\ calls = << >>
    /\ cwd_files = {}
    /\ summary = << >>
    /\ exc = "none"
    /\ propagated = FALSE

InitA == InitAOver(TRUE)

(* ------------------------ Driver A: operations ------------------------- *)
accent == accents[i]

\* Exceptions the fastabx calls raise when a step fails, and the classes
\* the clause "except Exception" catches.
StepErrors == { "RuntimeError" }
ExceptionSubclasses ==
    { "RuntimeError", "OSError", "FileNotFoundError", "PermissionError",
      "ValueError", "KeyError" }
CaughtOnlyOSError(e) == e \in { "OSError", "FileNotFoundError", "PermissionError" }

CaughtByExcept(e) == e \in ExceptionSubclasses

Call(op, args, raised) ==
    [op |-> op, iter |-> i, args |-> args, raised |-> raised]

TryCallIgnoringError(at, next, op, args, ok, e) ==
    /\ program = "run_fastabx"
    /\ pc = at
    /\ calls' = Append(calls, Call(op, args, ~ok))
    /\ pc' = next
    /\ exc' = "none"

\* One statement of the try block that calls into fastabx: it returns
\* (control moves to next) or raises e (control leaves the try block).
\* The call is recorded either way.
TryCall(at, next, op, args, ok, e) ==
    /\ program = "run_fastabx"
    /\ pc = at
    /\ calls' = Append(calls, Call(op, args, ~ok))
    /\ pc' = IF ok THEN next ELSE "raised"
    /\ exc' = IF ok THEN "none" ELSE e

\* for accent in accents:
ForAccent ==
    /\ program = "run_fastabx"
    /\ pc = "for"
    /\ IF i < Len(accents)
       THEN /\ i' = i + 1
            /\ pc' = "process_accent"
       ELSE /\ pc' = "summary"
            /\ UNCHANGED i
    /\ UNCHANGED << program, varsB, accents, fs, success_count, failed_accents, success,
                    returned, item_file, features_dir, times_dir, dataset,
                    across_task, across_score, within_task, within_score,
                    calls, cwd_files, summary, exc, propagated >>

AfterItemCheckNoSkip(a) == "load"

\* if not item_file.exists(): ... return False
AfterItemCheck(a) ==
    IF exists(get_item_file_path(a)) THEN "load" ELSE "return_false"

\* process_accent up to the item-file check
ResolvePaths ==
    /\ program = "run_fastabx"
    /\ pc = "process_accent"
    /\ item_file' = get_item_file_path(accent)
    /\ features_dir' = get_accent_directories(accent)[1]
    /\ times_dir' = get_accent_directories(accent)[2]
    /\ dataset' = 0 /\ across_task' = 0 /\ across_score' = 0
    /\ within_task' = 0 /\ within_score' = 0
    /\ pc' = AfterItemCheck(accent)
    /\ UNCHANGED << program, varsB, accents, fs, i, success_count, failed_accents,
                    success, returned, calls, cwd_files, summary, exc, propagated >>

\* dataset = Dataset.from_item_with_times(item_file, features_dir, times_dir)
LoadDataset ==
    \E ok \in BOOLEAN, e \in StepErrors :
        /\ TryCall("load", "across_task", "Dataset.from_item_with_times",
                   << item_file, features_dir, times_dir >>, ok, e)
        /\ dataset' = IF ok THEN Len(calls) + 1 ELSE dataset
        /\ UNCHANGED << program, varsB, accents, fs, i, success_count, failed_accents,
                        success, returned, item_file, features_dir, times_dir,
                        across_task, across_score, within_task, within_score,
                        cwd_files, summary, propagated >>

NoArg == << >>

AcrossTaskArgs ==
    [dataset |-> dataset, on |-> "#phone",
     by |-> << "next-phone", "prev-phone" >>, across |-> << "speaker" >>]

WithinTaskArgsAcrossSpeaker ==
    [dataset |-> dataset, on |-> "#phone",
     by |-> << "next-phone", "prev-phone" >>, across |-> << "speaker" >>]

WithinTaskArgs ==
    [dataset |-> dataset, on |-> "#phone",
     by |-> << "next-phone", "prev-phone", "speaker" >>, across |-> NoArg]

\* across_task = Task(dataset, on=, by=, across=)
BuildAcrossTask ==
    \E ok \in BOOLEAN, e \in StepErrors :
        /\ TryCall("across_task", "across_score", "Task", AcrossTaskArgs, ok, e)
        /\ across_task' = IF ok THEN Len(calls) + 1 ELSE across_task
        /\ UNCHANGED << program, varsB, accents, fs, i, success_count, failed_accents,
                        success, returned, item_file, features_dir, times_dir,
                        dataset, across_score, within_task, within_score,
                        cwd_files, summary, propagated >>

\* across_score = Score(across_task, "angular")
ScoreAcross ==
    \E ok \in BOOLEAN, e \in StepErrors :
        /\ TryCall("across_score", "across_write", "Score",
                   [task |-> across_task, distance |-> "angular"], ok, e)
        /\ across_score' = IF ok THEN Len(calls) + 1 ELSE across_score
        /\ UNCHANGED << program, varsB, accents, fs, i, success_count, failed_accents,
                        success, returned, item_file, features_dir, times_dir,
                        dataset, across_task, within_task, within_score,
                        cwd_files, summary, propagated >>

\* score.write_csv(path): the file is there when the call returns; when
\* it raises, the file may or may not have been created.
WriteCsvFiles(path, ok) ==
    IF ok THEN { cwd_files \cup {path} }
          ELSE { cwd_files, cwd_files \cup {path} }

\* across_score.write_csv(across_output_csv)
WriteAcrossCsv ==
    \E ok \in BOOLEAN, e \in StepErrors :
        /\ TryCall("across_write", "across_collapse", "write_csv",
                   [score |-> across_score, path |-> across_output_csv(accent)],
                   ok, e)
        /\ cwd_files' \in WriteCsvFiles(across_output_csv(accent), ok)
        /\ UNCHANGED << program, varsB, accents, fs, i, success_count, failed_accents,
                        success, returned, item_file, features_dir, times_dir,
                        dataset, across_task, across_score, within_task,
                        within_score, summary, propagated >>

\* across_collapsed = across_score.collapse(weighted=True); print(...)
CollapseAcross ==
    \E ok \in BOOLEAN, e \in StepErrors :
        /\ TryCall("across_collapse", "within_task", "collapse",
                   [score |-> across_score, weighted |-> TRUE], ok, e)
        /\ UNCHANGED << program, varsB, accents, fs, i, success_count, failed_accents,
                        success, returned, item_file, features_dir, times_dir,
                        dataset, across_task, across_score, within_task,
                        within_score, cwd_files, summary, propagated >>

\* within_task = Task(dataset, on=, by=)
BuildWithinTask ==
    \E ok \in BOOLEAN, e \in StepErrors :
        /\ TryCall("within_task", "within_score", "Task", WithinTaskArgs, ok, e)
        /\ within_task' = IF ok THEN Len(calls) + 1 ELSE within_task
        /\ UNCHANGED << program, varsB, accents, fs, i, success_count, failed_accents,
                        success, returned, item_file, features_dir, times_dir,
                        dataset, across_task, across_score, within_score,
                        cwd_files, summary, propagated >>

\* within_score = Score(within_task, "angular")
ScoreWithin ==
    \E ok \in BOOLEAN, e \in StepErrors :
        /\ TryCall("within_score", "within_write", "Score",
                   [task |-> within_task, distance |-> "angular"], ok, e)
        /\ within_score' = IF ok THEN Len(calls) + 1 ELSE within_score
        /\ UNCHANGED << program, varsB, accents, fs, i, success_count, failed_accents,
                        success, returned, item_file, features_dir, times_dir,
                        dataset, across_task, across_score, within_task,
                        cwd_files, summary, propagated >>

\* within_score.write_csv(within_output_csv)
WriteWithinCsv ==
    \E ok \in BOOLEAN, e \in StepErrors :
        /\ TryCall("within_write", "within_collapse", "write_csv",
                   [score |-> within_score, path |-> within_output_csv(accent)],
                   ok, e)
        /\ cwd_files' \in WriteCsvFiles(within_output_csv(accent), ok)
        /\ UNCHANGED << program, varsB, accents, fs, i, success_count, failed_accents,
                        success, returned, item_file, features_dir, times_dir,
                        dataset, across_task, across_score, within_task,
                        within_score, summary, propagated >>

\* within_collapsed = within_score.collapse(weighted=True); print(...)
CollapseWithin ==
    \E ok \in BOOLEAN, e \in StepErrors :
        /\ TryCall("within_collapse", "return_true", "collapse",
                   [score |-> within_score, weighted |-> TRUE], ok, e)
        /\ UNCHANGED << program, varsB, accents, fs, i, success_count, failed_accents,
                        success, returned, item_file, features_dir, times_dir,
                        dataset, across_task, across_score, within_task,
                        within_score, cwd_files, summary, propagated >>

\* except Exception as e: print, traceback.print_exc(), return False.
\* An exception the clause does not catch leaves process_accent and, with
\* no handler in process_all_accents, the batch loop.
ExceptClause ==
    /\ program = "run_fastabx"
    /\ pc = "raised"
    /\ IF CaughtByExcept(exc)
       THEN /\ pc' = "return_false"
            /\ exc' = "none"
            /\ UNCHANGED propagated
       ELSE /\ pc' = "aborted"
            /\ propagated' = TRUE
            /\ UNCHANGED exc
    /\ UNCHANGED << program, varsB, accents, fs, i, success_count, failed_accents,
                    success, returned, item_file, features_dir, times_dir,
                    dataset, across_task, across_score, within_task,
                    within_score, calls, cwd_files, summary >>

\* return True, received by "success = self.process_accent(accent)"
ReturnTrue ==
    /\ program = "run_fastabx"
    /\ pc = "return_true"
    /\ success' = TRUE
    /\ returned' = Append(returned, TRUE)
    /\ pc' = "count"
    /\ UNCHANGED << program, varsB, accents, fs, i, success_count, failed_accents,
                    item_file, features_dir, times_dir, dataset, across_task,
                    across_score, within_task, within_score, calls, cwd_files,
                    summary, exc, propagated >>

\* return False (item file missing, or from the except clause)
ReturnFalse ==
    /\ program = "run_fastabx"
    /\ pc = "return_false"
    /\ success' = FALSE
    /\ returned' = Append(returned, FALSE)
    /\ pc' = "count"
    /\ UNCHANGED << program, varsB, accents, fs, i, success_count, failed_accents,
                    item_file, features_dir, times_dir, dataset, across_task,
                    across_score, within_task, within_score, calls, cwd_files,
                    summary, exc, propagated >>

CountResultAlwaysSuccess ==
    /\ program = "run_fastabx"
    /\ pc = "count"
    /\ success_count' = success_count + 1
    /\ pc' = "for"
    /\ UNCHANGED << program, varsB, accents, fs, i, failed_accents, success,
                    returned, item_file, features_dir, times_dir, dataset,
                    across_task, across_score, within_task, within_score,
                    calls, cwd_files, summary, exc, propagated >>

\* if success: success_count += 1  else: failed_accents.append(accent)
CountResult ==
    /\ program = "run_fastabx"
    /\ pc = "count"
    /\ IF success
       THEN /\ success_count' = success_count + 1
            /\ UNCHANGED failed_accents
       ELSE /\ failed_accents' = Append(failed_accents, accent)
            /\ UNCHANGED success_count
    /\ pc' = "for"
    /\ UNCHANGED << program, varsB, accents, fs, i, success, returned, item_file,
                    features_dir, times_dir, dataset, across_task, across_score,
                    within_task, within_score, calls, cwd_files, summary, exc,
                    propagated >>

\* The PROCESSING SUMMARY block
PrintSummary ==
    /\ program = "run_fastabx"
    /\ pc = "summary"
    /\ summary' = << [total |-> Len(accents),
                      successfully_processed |-> success_count,
                      failed |-> Len(failed_accents),
                      failed_accents |-> failed_accents] >>
    /\ pc' = "done"
    /\ UNCHANGED << program, varsB, accents, fs, i, success_count, failed_accents,
                    success, returned, item_file, features_dir, times_dir,
                    dataset, across_task, across_score, within_task,
                    within_score, calls, cwd_files, exc, propagated >>

process_accent ==
    \/ ResolvePaths
    \/ LoadDataset
    \/ BuildAcrossTask
    \/ ScoreAcross
    \/ WriteAcrossCsv
    \/ CollapseAcross
    \/ BuildWithinTask
    \/ ScoreWithin
    \/ WriteWithinCsv
    \/ CollapseWithin
    \/ ExceptClause
    \/ ReturnTrue
    \/ ReturnFalse

process_all_accents ==
    \/ ForAccent
    \/ process_accent
    \/ CountResult
    \/ PrintSummary

(* ------------------------------ Driver B ------------------------------- *)
CORPUS_DIR     == << <<"corpus">> >>
ALIGNMENT_FILE == << <<"ali">>, <<"alignment.txt">> >>
ITEM_FILE      == << <<"out">>, <<"data.item">> >>

\* Path.parent
Parent(p) == SubSeq(p, 1, Len(p) - 1)

\* argparse defaults
DefaultNjobs == 4
DefaultVerbose == 1

\* State when main enters its try block, after parse_arguments
InitB ==
    /\ program = "aesrc_item"
    /\ accents = << >>
    /\ fs \in SUBSET { CORPUS_DIR, ALIGNMENT_FILE, Parent(ITEM_FILE) }
    /\ pc = "main"
    /\ i = 0
    /\ success_count = 0
    /\ failed_accents = << >>
    /\ success = FALSE
    /\ returned = << >>
    /\ InitLocals
    /\ calls = << >>
    /\ cwd_files = {}
    /\ summary = << >>
    /\ exc = "none"
    /\ propagated = FALSE
    /\ validate_only \in BOOLEAN
    /\ logger = "none"
    /\ log = << >>
    /\ stdout = << >>
    /\ stderr = << >>
    /\ exit_code = NotReturned

ValidationErrorCorpusOnly ==
    IF ~ exists(CORPUS_DIR) THEN "FileNotFoundError" ELSE "none"

\* The exception _validate_inputs raises on the filesystem state, or "none"
\* when both inputs exist.
ValidationError ==
    IF ~ exists(CORPUS_DIR) THEN "FileNotFoundError"
    ELSE IF ~ exists(ALIGNMENT_FILE) THEN "FileNotFoundError"
    ELSE "none"

\* AESRCABXGenerator(...): _validate_inputs, then _setup_logging.
\* item_file.parent.mkdir(parents=True, exist_ok=True) creates the directory
\* or, when it is absent and cannot be created, raises.
\* _setup_logging returns abkhazia's logger or the standard one.
Construct ==
    /\ program = "aesrc_item"
    /\ pc = "main"
    /\ IF ValidationError # "none"
       THEN /\ exc' = ValidationError
            /\ pc' = "main_except"
            /\ UNCHANGED << fs, logger >>
       ELSE \E mkdir_ok \in BOOLEAN, lg \in { "abkhazia", "logging" } :
               IF mkdir_ok \/ exists(Parent(ITEM_FILE))
               THEN /\ fs' = fs \cup { Parent(ITEM_FILE) }
                    /\ logger' = lg
                    /\ pc' = "constructed"
                    /\ UNCHANGED exc
               ELSE /\ exc' = "PermissionError"
                    /\ pc' = "main_except"
                    /\ UNCHANGED << fs, logger >>
    /\ UNCHANGED << program, varsAonly, calls, propagated, validate_only, log,
                    stdout, stderr, exit_code >>

ValidateOnlyIgnored == FALSE

\* if args.validate_only:
ValidateOnlyRequested == validate_only

\* the four prints of the validate-only branch
ReportValidated ==
    /\ program = "aesrc_item"
    /\ pc = "constructed"
    /\ ValidateOnlyRequested
    /\ stdout' = stdout \o << <<"All inputs validated successfully!">>,
                              <<"Corpus directory", CORPUS_DIR>>,
                              <<"Alignment file", ALIGNMENT_FILE>>,
                              <<"Output item file", ITEM_FILE>> >>
    /\ pc' = "return0"
    /\ UNCHANGED << program, varsAonly, fs, calls, exc, propagated,
                    validate_only, logger, log, stderr, exit_code >>

\* else: generator.run() entering load_corpus; Corpus.load returns or raises
\* (as does len(corpus.utts())); the except clause logs and re-raises.
LoadCorpus ==
    /\ program = "aesrc_item"
    /\ pc = "constructed"
    /\ ~ ValidateOnlyRequested
    /\ \E ok \in BOOLEAN, e \in StepErrors :
          /\ calls' = Append(calls, [op |-> "Corpus.load",
                                     args |-> << CORPUS_DIR >>,
                                     raised |-> ~ok])
          /\ IF ok
             THEN /\ log' = log \o << <<"info", "Loading corpus">>,
                                      <<"info", "Successfully loaded corpus">> >>
                  /\ pc' = "generate"
                  /\ UNCHANGED exc
             ELSE /\ log' = log \o << <<"info", "Loading corpus">>,
                                      <<"error", "Failed to load corpus">> >>
                  /\ exc' = e
                  /\ pc' = "run_except"
    /\ UNCHANGED << program, varsAonly, fs, propagated, validate_only, logger,
                    stdout, stderr, exit_code >>

alignment2itemArgs ==
    [corpus |-> 1,
     alignment_file |-> ALIGNMENT_FILE,
     item_file |-> ITEM_FILE,
     segment_extension |-> "single_phone",
     exclude_phones |-> << >>,
     njobs |-> DefaultNjobs,
     verbose |-> DefaultVerbose,
     ali_with_phone_proba |-> FALSE]

\* generate_item_file(corpus), then the success message of run
GenerateItemFile ==
    /\ program = "aesrc_item"
    /\ pc = "generate"
    /\ \E ok \in BOOLEAN, e \in StepErrors :
          /\ calls' = Append(calls, [op |-> "alignment2item",
                                     args |-> alignment2itemArgs,
                                     raised |-> ~ok])
          /\ IF ok
             THEN /\ log' = log \o
                        << <<"info", "Generating ABX item file...">>,
                           <<"info", "Successfully generated item file">>,
                           <<"info", "ABX item generation completed successfully!">> >>
                  /\ fs' = fs \cup { ITEM_FILE }
                  /\ pc' = "return0"
                  /\ UNCHANGED exc
             ELSE /\ log' = log \o
                        << <<"info", "Generating ABX item file...">>,
                           <<"error", "Failed to generate item file">> >>
                  /\ exc' = e
                  /\ pc' = "run_except"
                  /\ UNCHANGED fs
    /\ UNCHANGED << program, varsAonly, propagated, validate_only, logger,
                    stdout, stderr, exit_code >>

RunExceptSwallow ==
    /\ program = "aesrc_item"
    /\ pc = "run_except"
    /\ log' = Append(log, <<"error", "ABX item generation failed">>)
    /\ pc' = "return0"
    /\ UNCHANGED << program, varsAonly, fs, calls, exc, propagated,
                    validate_only, logger, stdout, stderr, exit_code >>

\* run: except Exception as e: log.error(...); raise
RunExcept ==
    /\ program = "aesrc_item"
    /\ pc = "run_except"
    /\ log' = Append(log, <<"error", "ABX item generation failed">>)
    /\ pc' = "main_except"
    /\ UNCHANGED << program, varsAonly, fs, calls, exc, propagated,
                    validate_only, logger, stdout, stderr, exit_code >>

\* main: return 0
Return0 ==
    /\ program = "aesrc_item"
    /\ pc = "return0"
    /\ exit_code' = 0
    /\ pc' = "exited"
    /\ UNCHANGED << program, varsAonly, fs, calls, exc, propagated,
                    validate_only, logger, log, stdout, stderr >>

\* main: except Exception as e: print(f"Error: {e}", file=sys.stderr); return 1
MainExcept ==
    /\ program = "aesrc_item"
    /\ pc = "main_except"
    /\ IF CaughtByExcept(exc)
       THEN /\ stderr' = Append(stderr, <<"Error", exc>>)
            /\ exit_code' = 1
            /\ pc' = "exited"
            /\ UNCHANGED propagated
       ELSE /\ propagated' = TRUE
            /\ pc' = "aborted"
            /\ UNCHANGED << stderr, exit_code >>
    /\ UNCHANGED << program, varsAonly, fs, calls, exc, validate_only, logger,
                    log, stdout >>

main ==
    \/ Construct
    \/ ReportValidated
    \/ LoadCorpus
    \/ GenerateItemFile
    \/ RunExcept
    \/ Return0
    \/ MainExcept

(* --------------------------- specification ----------------------------- *)
Init == InitA \/ InitB

Next == process_all_accents \/ main

Spec == Init /\ [][Next]_vars

\* Both drivers are sequential programs that keep running until they end:
\* every call into a library returns or raises.  The per-accent feature and
\* timing directories do not influence control flow and are left absent.
InitFair == InitAOver(FALSE) \/ InitB

FairSpec == InitFair /\ [][Next]_vars /\ WF_vars(Next)

(* ------------------------------ properties ----------------------------- *)
DriverA == program = "run_fastabx"
DriverB == program = "aesrc_item"

Range(f) == { f[k] : k \in DOMAIN f }

\* Positions in calls of the calls made during iteration k of the loop
CallIdx(k) == { n \in 1..Len(calls) : calls[n].iter = k }
CallsOf(k) == SelectSeq(calls, LAMBDA c : c.iter = k)

\* Iteration k has been counted by the loop body
Counted(k) == k < i \/ pc \in { "for", "summary", "done" }

StepOrder ==
    << "Dataset.from_item_with_times", "Task", "Score", "write_csv", "collapse",
       "Task", "Score", "write_csv", "collapse" >>

IsPrefix(a, b) == Len(a) <= Len(b) /\ a = SubSeq(b, 1, Len(a))

\* C1: whatever step raises for whatever accent, no exception leaves the
\* batch loop, and the run eventually prints its summary and ends with every
\* accent of the list processed.
C1_AlwaysReachesSummary ==
    /\ [](DriverA => ~ propagated /\ pc # "aborted")
    /\ <>(DriverA => /\ pc = "done"
                     /\ Len(summary) = 1
                     /\ Len(returned) = Len(accents))

C1_Witness ==
    /\ DriverA
    /\ pc = "done"
    /\ Len(summary) = 1
    /\ Len(accents) = MaxAccents
    /\ success_count = 0
    /\ \E n \in 1..Len(calls) : calls[n].raised /\ calls[n].op = "write_csv"
    /\ \E n \in 1..Len(calls) :
          calls[n].raised /\ calls[n].op = "Dataset.from_item_with_times"

\* C2: an accent whose item file is absent makes no call into the library,
\* returns False, is appended to the failed list, and the loop still runs
\* through the whole list.
C2_MissingItemSkipped ==
    DriverA =>
      /\ \A k \in 1..i :
            (get_item_file_path(accents[k]) \notin fs /\ (k < i \/ pc # "process_accent")) =>
               /\ \A n \in 1..Len(calls) : calls[n].iter # k
               /\ (k <= Len(returned) => returned[k] = FALSE)
               /\ (Counted(k) => accents[k] \in Range(failed_accents))
      /\ (pc = "done" => i = Len(accents) /\ Len(returned) = Len(accents))

C2_Witness ==
    /\ DriverA
    /\ pc = "done"
    /\ Len(accents) >= 2
    /\ get_item_file_path(accents[1]) \notin fs
    /\ CallIdx(1) = {}
    /\ Len(CallsOf(2)) = 9
    /\ returned = << FALSE, TRUE >>

RECURSIVE FailedAmong(_)
FailedAmong(n) ==
    IF n = 0 THEN << >>
    ELSE IF returned[n] THEN FailedAmong(n - 1)
         ELSE Append(FailedAmong(n - 1), accents[n])

\* C3: the counters account for every processed accent exactly once:
\* success_count + len(failed_accents) is the number of accents counted so
\* far, the failed list is the accents that returned False in input order,
\* and the printed summary has total = success + failed.
C3_SummaryAccounting ==
    DriverA =>
      LET n == IF Counted(i) THEN i ELSE i - 1 IN
      /\ success_count + Len(failed_accents) = n
      /\ Len(returned) \in { n, n + 1 }
      /\ failed_accents = FailedAmong(n)
      /\ success_count = Cardinality({ k \in 1..n : returned[k] })
      /\ (pc = "done" =>
            /\ i = Len(accents)
            /\ summary[1].total = Len(accents)
            /\ summary[1].total = summary[1].successfully_processed + summary[1].failed
            /\ summary[1].failed = Len(summary[1].failed_accents)
            /\ summary[1].failed_accents = failed_accents
            /\ summary[1].successfully_processed = success_count)

C3_Witness ==
    /\ DriverA
    /\ pc = "done"
    /\ summary[1].successfully_processed >= 1
    /\ summary[1].failed >= 1

\* Positions of the write_csv calls of iteration k
WritesOf(k) == SelectSeq(CallsOf(k), LAMBDA c : c.op = "write_csv")

NoUpper(str) == \A n \in 1..Len(str) : str[n] \notin Range(UpperAlpha)

\* C4: an accent counted as successful made exactly two write_csv calls,
\* to <lowercased accent>_dev_across_scores.csv and then to
\* <lowercased accent>_dev_within_scores.csv, and both files are there.
C4_TwoCsvPerSuccess ==
    DriverA =>
      \A k \in 1..Len(returned) :
         returned[k] =>
            LET w == WritesOf(k) IN
            /\ Len(w) = 2
            /\ w[1].args.path = Lower(accents[k]) \o <<"_dev_across_scores.csv">>
            /\ w[2].args.path = Lower(accents[k]) \o <<"_dev_within_scores.csv">>
            /\ NoUpper(w[1].args.path)
            /\ NoUpper(w[2].args.path)
            /\ ~ w[1].raised /\ ~ w[2].raised
            /\ { w[1].args.path, w[2].args.path } \subseteq cwd_files

C4_Witness ==
    /\ DriverA
    /\ Len(returned) = 2
    /\ returned[1] /\ returned[2]
    /\ accents[1] = <<"U","S">> /\ accents[2] = <<"u","s">>
    /\ Cardinality(cwd_files) = 2

\* The directory the policy picks under root for accent a
Resolved(root, a) == IF (root \o <<a>>) \in fs THEN root \o <<a>> ELSE root

\* C5: the dataset loader is called with the item file of the accent, with
\* <features_dir>/<accent> if it exists and the features directory
\* otherwise, and, independently, the same for the times directory.
C5_DirectoryResolution ==
    DriverA =>
      \A n \in 1..Len(calls) :
         calls[n].op = "Dataset.from_item_with_times" =>
            /\ calls[n].args[2] = Resolved(FEATURES_DIR, accents[calls[n].iter])
            /\ calls[n].args[3] = Resolved(TIMES_DIR, accents[calls[n].iter])

C5_Witness ==
    /\ DriverA
    /\ \E n \in 1..Len(calls) :
          /\ calls[n].op = "Dataset.from_item_with_times"
          /\ calls[n].args[2] = FEATURES_DIR \o <<accents[calls[n].iter]>>
          /\ calls[n].args[3] = TIMES_DIR
    /\ \E n \in 1..Len(calls) :
          /\ calls[n].op = "Dataset.from_item_with_times"
          /\ calls[n].args[2] = FEATURES_DIR
          /\ calls[n].args[3] = TIMES_DIR \o <<accents[calls[n].iter]>>

InputMissing == CORPUS_DIR \notin fs \/ ALIGNMENT_FILE \notin fs

\* C6: with the corpus directory or the alignment file absent, the
\* constructor raises FileNotFoundError, main ends with status 1, and
\* neither Corpus.load nor alignment2item is ever called.
C6_FailFastValidation ==
    (DriverB /\ InputMissing) =>
      /\ calls = << >>
      /\ pc \in { "main", "main_except", "exited" }
      /\ (pc # "main" => exc = "FileNotFoundError")
      /\ (pc = "exited" => exit_code = 1 /\ stderr = << <<"Error", "FileNotFoundError">> >>)

C6_Witness ==
    /\ DriverB
    /\ CORPUS_DIR \in fs
    /\ ALIGNMENT_FILE \notin fs
    /\ pc = "exited"
    /\ exc = "FileNotFoundError"

ValidatedReport ==
    << <<"All inputs validated successfully!">>,
       <<"Corpus directory", CORPUS_DIR>>,
       <<"Alignment file", ALIGNMENT_FILE>>,
       <<"Output item file", ITEM_FILE>> >>

\* C7: in validate-only mode no library call is ever made; when the
\* constructor succeeded main prints the success line and the three paths
\* and returns 0, and when an input is missing it ends with
\* FileNotFoundError and status 1.
C7_ValidateOnly ==
    (DriverB /\ validate_only) =>
      /\ calls = << >>
      /\ (pc = "exited" /\ ~ InputMissing /\ exc = "none" =>
            exit_code = 0 /\ stdout = ValidatedReport)
      /\ (pc = "exited" /\ InputMissing =>
            exit_code = 1 /\ exc = "FileNotFoundError" /\ stdout = << >>)

C7_Witness ==
    /\ DriverB
    /\ validate_only
    /\ pc = "exited"
    /\ exit_code = 0
    /\ stdout = ValidatedReport

\* Both library calls were made and returned
BothCompleted ==
    /\ Len(calls) = 2
    /\ calls[1].op = "Corpus.load" /\ ~ calls[1].raised
    /\ calls[2].op = "alignment2item" /\ ~ calls[2].raised

\* C8: main returns 0 exactly when validation passed and, unless
\* validate-only, both the corpus load and the conversion returned; every
\* failure reaches main, which prints it to standard error and returns 1.
C8_ExitStatus ==
    DriverB =>
      /\ ~ propagated /\ pc # "aborted"
      /\ (pc = "exited" =>
            /\ exit_code \in { 0, 1 }
            /\ (exit_code = 0 <=>
                  /\ ~ InputMissing
                  /\ Parent(ITEM_FILE) \in fs
                  /\ (validate_only \/ BothCompleted))
            /\ (exit_code = 1 <=> stderr = << <<"Error", exc>> >> /\ exc # "none")
            /\ (exit_code = 0 => stderr = << >> /\ exc = "none"))

C8_Witness ==
    /\ DriverB
    /\ pc = "exited"
    /\ exit_code = 1
    /\ Len(calls) = 2
    /\ calls[2].raised
    /\ Len(stderr) = 1

TasksOf(k) == SelectSeq(CallsOf(k), LAMBDA c : c.op = "Task")
ScoresOf(k) == SelectSeq(CallsOf(k), LAMBDA c : c.op = "Score")

\* Position in calls of the dataset load of iteration k
LoadIdx(k) ==
    { n \in 1..Len(calls) :
        calls[n].iter = k /\ calls[n].op = "Dataset.from_item_with_times" }

\* C9: for every accent the first task is on '#phone' by {next-phone,
\* prev-phone} across {speaker}, the second is on '#phone' by {next-phone,
\* prev-phone, speaker} with no across argument, both take the dataset
\* loaded for that accent, and every score uses the 'angular' distance.
C9_TaskParameters ==
    DriverA =>
      \A k \in 1..i :
         LET cs == CallsOf(k)
             t == SelectSeq(cs, LAMBDA c : c.op = "Task")
             sc == SelectSeq(cs, LAMBDA c : c.op = "Score")
             ld == LoadIdx(k)
         IN
         /\ Len(t) <= 2
         /\ Len(t) >= 1 =>
               /\ t[1].args.on = "#phone"
               /\ Range(t[1].args.by) = { "next-phone", "prev-phone" }
               /\ Range(t[1].args.across) = { "speaker" }
               /\ ld = { t[1].args.dataset }
         /\ Len(t) = 2 =>
               /\ t[2].args.on = "#phone"
               /\ Range(t[2].args.by) = { "next-phone", "prev-phone", "speaker" }
               /\ t[2].args.across = NoArg
               /\ ld = { t[2].args.dataset }
         /\ \A n \in 1..Len(sc) :
               /\ sc[n].args.distance = "angular"
               /\ calls[sc[n].args.task].op = "Task"
               /\ calls[sc[n].args.task].iter = k

C9_Witness ==
    /\ DriverA
    /\ i = 2
    /\ accents[1] # accents[2]
    /\ Len(TasksOf(1)) = 2 /\ Len(ScoresOf(1)) = 2
    /\ Len(TasksOf(2)) = 2 /\ Len(ScoresOf(2)) = 2

\* C10: the calls of one accent are a prefix of the nine steps in order,
\* a call that raises is the last call of its accent, the within CSV is
\* written only after the across CSV was, and an accent returns True only
\* after all nine calls returned.
C10_StepOrder ==
    DriverA =>
      \A k \in 1..i :
         LET cs == CallsOf(k)
             w == SelectSeq(cs, LAMBDA c : c.op = "write_csv")
         IN
         /\ IsPrefix([n \in 1..Len(cs) |-> cs[n].op], StepOrder)
         /\ \A n \in 1..Len(cs) : cs[n].raised => n = Len(cs)
         /\ Len(w) = 2 =>
               /\ ~ w[1].raised
               /\ w[1].args.path \in cwd_files
         /\ (k <= Len(returned) =>
               (returned[k] <=>
                  /\ Len(cs) = 9
                  /\ \A n \in 1..9 : ~ cs[n].raised))

\* An accent counted as failed that left both of its CSV files behind
C10_Witness ==
    /\ DriverA
    /\ Len(failed_accents) >= 1
    /\ returned[1] = FALSE
    /\ Len(CallsOf(1)) = 9
    /\ CallsOf(1)[9].raised
    /\ { WritesOf(1)[1].args.path, WritesOf(1)[2].args.path } \subseteq cwd_files
====
